---- MODULE Spec2Model ----
(***************************************************************************)
(* Token price updater: main.py (fetch with fallback, batched) driven by   *)
(* scheduler.py (job calls main again and again in one process).           *)
(*                                                                         *)
(* Encoding of Python values:                                              *)
(*   None            the empty sequence <<>>                               *)
(*   a present value the one-element sequence <<v>>                        *)
(*   a percent       an integer number of hundredths (5.25% is 525)        *)
(*   a delay         an integer number of milliseconds                     *)
(***************************************************************************)
EXTENDS Integers, Sequences, FiniteSets, TLC

\* ------------------------------------------------------------------ bounds
MaxTokens == 2
MaxRuns == 2
MaxBatchSize == 3
MaxItems == 4
MaxPairs == 2

\* ------------------------------------------------------- program constants
BATCH_SIZE == 10
BATCH_DELAY == 2000
REQUEST_DELAY == 100
GECKO_BATCH_SIZE == 2
GECKO_BATCH_DELAY == 20000
GECKO_REQUEST_DELAY == 1000

\* ------------------------------------------------------------ Python glue
None == <<>>
Some(v) == <<v>>
IsNone(o) == o = <<>>
Val(o) == o[1]
Min(a, b) == IF a < b THEN a ELSE b

\* str.lower() on the chain names the model uses
Lower(s) ==
  CASE s = "Polygon" -> "polygon"
    [] s = "BSC" -> "bsc"
    [] OTHER -> s

\* float(s) succeeds on these strings and raises ValueError on the others
\* ("not-a-number", "")
FloatParses(s) == s \in {"0.00000008369", "1.5", "2.5", "nan"}

\* ------------------------------------------------------------- the tokens
\* Rows of the "tokens" table. chain is Some(name), or None for a row whose
\* chain column is null (token.get("chain", "ethereum") then yields None).
TokenRows ==
  { [id |-> 1, name |-> "A", status |-> "approved", token_type |-> "launched",
     contract_address |-> "0xa", chain |-> Some("ethereum")],
    [id |-> 2, name |-> "D", status |-> "pending", token_type |-> "launched",
     contract_address |-> "0xd", chain |-> Some("BSC")],
    [id |-> 3, name |-> "B", status |-> "approved", token_type |-> "presale",
     contract_address |-> "0xb", chain |-> Some("Polygon")],
    [id |-> 4, name |-> "E", status |-> "approved", token_type |-> "other",
     contract_address |-> "0xe", chain |-> Some("ethereum")],
    [id |-> 5, name |-> "C", status |-> "approved", token_type |-> "launched",
     contract_address |-> "0xc", chain |-> None],
    [id |-> 6, name |-> "F", status |-> "approved", token_type |-> "launched",
     contract_address |-> "", chain |-> Some("ethereum")] }

\* Tables: at most MaxTokens rows, in the order of their ids
Tables ==
  { s \in UNION { [1..n -> TokenRows] : n \in 0..MaxTokens } :
      \A a, b \in DOMAIN s : a < b => s[a].id < s[b].id }

\* the condition of the list comprehension of fetch_tokens_from_supabase
Eligible(t) ==
  /\ t.contract_address # ""
  /\ t.status = "approved"
  /\ t.token_type \in {"launched", "presale"}

RECURSIVE FilterEligible(_)
FilterEligible(s) ==
  IF s = <<>> THEN <<>>
  ELSE (IF Eligible(Head(s)) THEN <<Head(s)>> ELSE <<>>) \o FilterEligible(Tail(s))

\* fetch_tokens_from_supabase: the filtered rows, or [] when the query raises
fetch_tokens_from_supabase(table, raises) ==
  IF raises THEN <<>> ELSE FilterEligible(table)

\* ------------------------------------------------------------ price data
\* the dict both clients and the generator hand to update_token_in_supabase
PriceData(h1, h24, price, src) ==
  [price_1h_change |-> h1, price_24h_change |-> h24, current_price |-> price,
   source |-> src]

NoPriceData == PriceData(None, None, None, "none")

\* what a call gives back: a dict, None, or an exception leaving the function
Returned(d) == [ret |-> "dict", data |-> d]
ReturnedNone == [ret |-> "None", data |-> NoPriceData]
Raised == [ret |-> "raise", data |-> NoPriceData]

\* ------------------------------------------------- DexScreener (Primary)
\* priceChange of a pair: a mapping, a missing key, or JSON null
Change(h1, h24) == [kind |-> "map", h1 |-> h1, h24 |-> h24]
ChangeMissing == [kind |-> "missing", h1 |-> None, h24 |-> None]
ChangeNull == [kind |-> "null", h1 |-> None, h24 |-> None]

Pair(chainId, change, priceUsd) ==
  [chainId |-> chainId, priceChange |-> change, priceUsd |-> priceUsd]

DexReply(status, pairs) == [status |-> status, pairs |-> pairs]

DexResponses ==
  { DexReply("timeout", None),
    DexReply("http_error", None),
    DexReply("ok", None),
    DexReply("ok", Some(<<>>)),
    DexReply("ok", Some(<<Pair("ethereum", Change(Some(525), Some(-310)),
                               Some("0.00000008369"))>>)),
    DexReply("ok", Some(<<Pair("bsc", Change(Some(0), Some(120)), Some("1.5")),
                          Pair("polygon", Change(Some(-75), None), Some("2.5"))>>)),
    DexReply("ok", Some(<<Pair("ethereum", Change(Some(100), None),
                               Some("not-a-number"))>>)),
    DexReply("ok", Some(<<Pair("ethereum", Change(None, Some(40)), Some(""))>>)),
    DexReply("ok", Some(<<Pair("ethereum", ChangeMissing, None)>>)),
    DexReply("ok", Some(<<Pair("ethereum", ChangeNull, Some("1.5"))>>)) }

\* chain_map.get(chain.lower(), chain.lower()) of fetch_price_data_from_dexscreener
\* (every key of that table maps to itself)
DexChain(chain) == Lower(chain)

\* index of the first pair whose chainId is dex_chain, 0 when there is none
RECURSIVE FirstMatch(_, _, _)
FirstMatch(pairs, dex_chain, k) ==
  IF k > Len(pairs) THEN 0
  ELSE IF pairs[k].chainId = dex_chain THEN k
  ELSE FirstMatch(pairs, dex_chain, k + 1)

\* the pair taken without looking at the chain: pair = pairs[0]
SelectPairIgnoresChain(pairs, dex_chain) == pairs[1]

\* pair = matching_pair if matching_pair else pairs[0]
SelectPair(pairs, dex_chain) ==
  IF FirstMatch(pairs, dex_chain, 1) # 0
    THEN pairs[FirstMatch(pairs, dex_chain, 1)]
    ELSE pairs[1]

\* if current_price: try float(current_price) except: current_price = None
ValidatePrice(current_price) ==
  IF IsNone(current_price) \/ Val(current_price) = "" THEN current_price
  ELSE IF FloatParses(Val(current_price)) THEN current_price
  ELSE None

\* chain is the optional chain of the token, reply the answer of the API
fetch_price_data_from_dexscreener(chain, reply) ==
  IF reply.status # "ok" THEN ReturnedNone
  ELSE IF IsNone(reply.pairs) \/ Len(Val(reply.pairs)) = 0 THEN ReturnedNone
  ELSE IF IsNone(chain) THEN Raised
  ELSE LET pair == SelectPair(Val(reply.pairs), DexChain(Val(chain)))
       IN IF pair.priceChange.kind = "null" THEN Raised
          ELSE Returned(PriceData(pair.priceChange.h1, pair.priceChange.h24,
                                  ValidatePrice(pair.priceUsd), "dexscreener"))

\* ----------------------------------------------- GeckoTerminal (Secondary)
Pool(attrs, price, change) ==
  [attributes |-> attrs, base_token_price_usd |-> price,
   price_change_percentage |-> change]

GeckoReply(status, data) == [status |-> status, data |-> data]

GeckoResponses ==
  { GeckoReply("timeout", None),
    GeckoReply("http_error", None),
    GeckoReply("ok", None),
    GeckoReply("ok", Some(<<>>)),
    GeckoReply("ok", Some(<<Pool("map", Some("1.5"), Change(Some(210), Some(-40))),
                            Pool("map", Some("2.5"), Change(Some(1), Some(2)))>>)),
    GeckoReply("ok", Some(<<Pool("map", Some("not-a-number"),
                                 Change(Some(30), None))>>)),
    GeckoReply("ok", Some(<<Pool("missing", None, ChangeMissing)>>)),
    GeckoReply("ok", Some(<<Pool("null", None, ChangeMissing)>>)),
    GeckoReply("ok", Some(<<Pool("map", Some("1.5"), ChangeNull)>>)) }

get_chain_name_for_geckoterminal(chain) ==
  IF Lower(chain) = "polygon" THEN "polygon-pos" ELSE Lower(chain)

\* the token_info dict is folded into the price data that
\* get_price_from_geckoterminal makes of it
get_pool_address_from_geckoterminal(chain, reply) ==
  IF IsNone(chain) THEN Raised
  ELSE IF reply.status # "ok" THEN ReturnedNone
  ELSE IF IsNone(reply.data) \/ Len(Val(reply.data)) = 0 THEN ReturnedNone
  ELSE LET pool == Val(reply.data)[1]
       IN IF pool.attributes = "null" THEN Raised
          ELSE IF pool.attributes = "missing"
            THEN Returned(PriceData(None, None, None, "pool"))
          ELSE IF pool.price_change_percentage.kind = "null" THEN Raised
          ELSE Returned(PriceData(pool.price_change_percentage.h1,
                                  pool.price_change_percentage.h24,
                                  pool.base_token_price_usd, "pool"))

get_price_from_geckoterminal(token_info) ==
  PriceData(token_info.price_1h_change, token_info.price_24h_change,
            token_info.current_price, "geckoterminal")

\* --------------------------------------------------- synthetic placeholder
\* random.uniform(-10, 10) in thousandths: the lower end, a half that rounds
\* to even, and a value that rounds up to the upper end
UniformDraws == {-10000, -5, 9996}

\* round(x, 2): thousandths to hundredths, halves to the even neighbour
Round2(m) ==
  LET q == m \div 10
      r == m % 10
  IN IF r < 5 THEN q
     ELSE IF r > 5 THEN q + 1
     ELSE IF q % 2 = 0 THEN q ELSE q + 1

\* the draws taken from (-100, 100) instead of (-10, 10)
generate_random_price_changes_wide(u1, u24) ==
  PriceData(Some(Round2(u1 * 10)), Some(Round2(u24 * 10)), None, "fallback_random")

generate_random_price_changes(u1, u24) ==
  PriceData(Some(Round2(u1)), Some(Round2(u24)), None, "fallback_random")

\* ------------------------------------------------------------ persistence
\* update_token_in_supabase: the payload without updated_at, whether the
\* update was sent to the store, and the boolean returned
\* the fields kept by truth value (`if value:`) instead of `is not None`
PayloadTruthy(price_data) ==
  [price_1h_change |->
     IF price_data.price_1h_change = Some(0) THEN None
     ELSE price_data.price_1h_change,
   price_24h_change |->
     IF price_data.price_24h_change = Some(0) THEN None
     ELSE price_data.price_24h_change,
   current_price |->
     IF price_data.current_price = Some("") THEN None
     ELSE price_data.current_price]

Payload(price_data) ==
  [price_1h_change |-> price_data.price_1h_change,
   price_24h_change |-> price_data.price_24h_change,
   current_price |-> price_data.current_price]

PayloadLen(price_data) ==
  1 + (IF IsNone(price_data.price_1h_change) THEN 0 ELSE 1)
    + (IF IsNone(price_data.price_24h_change) THEN 0 ELSE 1)
    + (IF IsNone(price_data.current_price) THEN 0 ELSE 1)

update_token_in_supabase(price_data, storeRaises) ==
  IF PayloadLen(price_data) > 1
    THEN [issued |-> TRUE, payload |-> Payload(price_data), ok |-> ~storeRaises]
    ELSE [issued |-> FALSE, payload |-> Payload(NoPriceData), ok |-> FALSE]

\* datetime.utcnow().isoformat() of the call, later than the stamp 0
\* the rows of the store start with
StampNow == 1

\* supabase.table("tokens").update(update_payload).eq("id", token_id): every
\* row whose id is token_id gets the columns of the payload, updated_at
\* among them; the other columns and the other rows stay
StoreUpdate(store, token_id, payload) ==
  [id \in DOMAIN store |->
     IF id # token_id THEN store[id]
     ELSE [price_1h_change |->
             IF IsNone(payload.price_1h_change) THEN store[id].price_1h_change
             ELSE payload.price_1h_change,
           price_24h_change |->
             IF IsNone(payload.price_24h_change) THEN store[id].price_24h_change
             ELSE payload.price_24h_change,
           current_price |->
             IF IsNone(payload.current_price) THEN store[id].current_price
             ELSE payload.current_price,
           updated_at |-> StampNow]]

\* ------------------------------------------------------------ batch loops
\* the slice taken one item too long: items[i:i + size + 1]
BatchOneMore(items, i, size) == SubSeq(items, i + 1, Min(i + size + 1, Len(items)))

\* batch = items[i:i + size]
Batch(items, i, size) == SubSeq(items, i + 1, Min(i + size, Len(items)))

\* One turn of the inner loop has handled batch[idx] of the batch at i, and
\* len_batch is len(batch). What follows: the sleep (0 for none), and the
\* next position, or the loop's end
\*   if idx < len(batch): sleep(request_delay)
\*   [end of batch] if batch_end < total: sleep(batch_delay)
\*   next i of range(0, total, size)
AdvanceStopsEarly(i, idx, len_batch, total, size, request_delay, batch_delay) ==
  IF idx < len_batch
    THEN [i |-> i, idx |-> idx + 1, sleep |-> request_delay, over |-> FALSE]
  ELSE IF Min(i + size, total) < total - 1
    THEN [i |-> i + size, idx |-> 1, sleep |-> batch_delay, over |-> FALSE]
  ELSE [i |-> i, idx |-> idx, sleep |-> 0, over |-> TRUE]

\* the request delay slept after every item, the last of its batch as well
AdvanceSleepsAfterEach(i, idx, len_batch, total, size, request_delay, batch_delay) ==
  IF idx < len_batch
    THEN [i |-> i, idx |-> idx + 1, sleep |-> request_delay, over |-> FALSE]
  ELSE IF Min(i + size, total) < total
    THEN [i |-> i + size, idx |-> 1, sleep |-> request_delay + batch_delay,
          over |-> FALSE]
  ELSE [i |-> i, idx |-> idx, sleep |-> request_delay, over |-> TRUE]

\* the item tried again after the request delay instead of the next one
AdvanceRetries(i, idx, len_batch, total, size, request_delay, batch_delay) ==
  IF idx < len_batch
    THEN [i |-> i, idx |-> idx, sleep |-> request_delay, over |-> FALSE]
  ELSE IF Min(i + size, total) < total
    THEN [i |-> i + size, idx |-> 1, sleep |-> batch_delay, over |-> FALSE]
  ELSE [i |-> i, idx |-> idx, sleep |-> 0, over |-> TRUE]
Advance(i, idx, len_batch, total, size, request_delay, batch_delay) ==
  IF idx < len_batch
    THEN [i |-> i, idx |-> idx + 1, sleep |-> request_delay, over |-> FALSE]
  ELSE IF Min(i + size, total) < total
    THEN [i |-> i + size, idx |-> 1, sleep |-> batch_delay, over |-> FALSE]
  ELSE [i |-> i, idx |-> idx, sleep |-> 0, over |-> TRUE]

\* the four fields appended to FAILED_TOKENS_DEXSCREENER
FailedEntry(token) ==
  [token_id |-> token.id, token_name |-> token.name,
   contract_address |-> token.contract_address, chain |-> token.chain]

\* ------------------------------------------------------------------ state
VARIABLES
  table,                      \* the rows of the tokens table
  run,                        \* runs that scheduler.job has started
  pc,                         \* where the current run of main() stands
  tokens,                     \* main: the eligible tokens of the run
  i, idx,                     \* the batch loop: start of the batch, place in it
  FAILED_TOKENS_DEXSCREENER,  \* the module-level list of main.py
  successful_updates, failed_updates,
  fallback_successful_updates, fallback_failed_updates,
  dexLog,                     \* this run's Primary calls: token id and outcome
  geckoLog,                   \* this run's Secondary calls: token id
  writes,                     \* this run's updates sent to the store: id, tier
  numRejected,                \* how many of them the store rejected
  numSynthetic,               \* this run's calls of generate_random_price_changes
  last,                       \* what the latest loop turn did
  bItems, bSize, bTier, bI, bIdx, bPc, bVisited, bChunks, bSleeps,
                              \* a batch loop on its own
  cChain, cReply, cGot, cPc,  \* one call of the Primary client on its own
  db,                         \* the store's price columns, by token id
  uToken, uData, uGot, uPc    \* one call of update_token_in_supabase

vars ==
  <<table, run, pc, tokens, i, idx, FAILED_TOKENS_DEXSCREENER,
    successful_updates, failed_updates, fallback_successful_updates,
    fallback_failed_updates, dexLog, geckoLog, writes, numRejected, numSynthetic,
    last, bItems, bSize, bTier, bI, bIdx, bPc, bVisited, bChunks, bSleeps,
    cChain, cReply, cGot, cPc, db, uToken, uData, uGot, uPc>>

callVars == <<cChain, cReply, cGot, cPc, db, uToken, uData, uGot, uPc>>

loopVars == <<bItems, bSize, bTier, bI, bIdx, bPc, bVisited, bChunks, bSleeps>>

mainVars ==
  <<table, run, pc, tokens, i, idx, FAILED_TOKENS_DEXSCREENER,
    successful_updates, failed_updates, fallback_successful_updates,
    fallback_failed_updates, dexLog, geckoLog, writes, numRejected,
    numSynthetic, last>>

\* the record kept of a loop turn: the call's outcome, the price data made
\* of it, whether an update went to the store and was accepted, the sleep
Turn(tier, token_id, ret, price_data, upd, sleep) ==
  [tier |-> tier, token_id |-> token_id, ret |-> ret, price_data |-> price_data,
   issued |-> upd.issued, ok |-> upd.ok, sleep |-> sleep]

NoUpdate == [issued |-> FALSE, payload |-> Payload(NoPriceData), ok |-> FALSE]

NoTurn == Turn(0, 0, "None", NoPriceData, NoUpdate, 0)

LoopIdle ==
  /\ bItems = <<>>
  /\ bSize = 1
  /\ bTier = 1
  /\ bI = 0
  /\ bIdx = 1
  /\ bPc = "off"
  /\ bVisited = <<>>
  /\ bChunks = <<>>
  /\ bSleeps = <<>>

CallIdle ==
  /\ cChain = None
  /\ cReply = DexReply("timeout", None)
  /\ cGot = ReturnedNone
  /\ cPc = "off"
  /\ db = <<>>
  /\ uToken = 0
  /\ uData = NoPriceData
  /\ uGot = NoUpdate
  /\ uPc = "off"

\* main.py imported by scheduler.py: nothing has run, the two lists are empty
MainIdle ==
  /\ run = 0
  /\ pc = "idle"
  /\ tokens = <<>>
  /\ i = 0
  /\ idx = 1
  /\ FAILED_TOKENS_DEXSCREENER = <<>>
  /\ successful_updates = 0
  /\ failed_updates = 0
  /\ fallback_successful_updates = 0
  /\ fallback_failed_updates = 0
  /\ dexLog = <<>>
  /\ geckoLog = <<>>
  /\ writes = <<>>
  /\ numRejected = 0
  /\ numSynthetic = 0
  /\ last = NoTurn

Init ==
  /\ table \in Tables
  /\ MainIdle
  /\ LoopIdle
  /\ CallIdle

RunOver == pc \in {"idle", "returned", "done", "raised"}

\* scheduler.job calls main(): fetch the tokens, leave at once when there are
\* none (main.py 347-352), else enter process_tokens_in_batches (242-245)
StartRun ==
  /\ RunOver
  /\ run < MaxRuns
  /\ \E raises \in BOOLEAN :
       /\ tokens' = fetch_tokens_from_supabase(table, raises)
       /\ pc' = IF tokens' = <<>> THEN "returned" ELSE "tier1"
  /\ run' = run + 1
  /\ i' = 0
  /\ idx' = 1
  /\ successful_updates' = 0
  /\ failed_updates' = 0
  /\ fallback_successful_updates' = 0
  /\ fallback_failed_updates' = 0
  /\ dexLog' = <<>>
  /\ geckoLog' = <<>>
  /\ writes' = <<>>
  /\ numRejected' = 0
  /\ numSynthetic' = 0
  /\ last' = NoTurn
  /\ UNCHANGED <<table, FAILED_TOKENS_DEXSCREENER>>
  /\ UNCHANGED <<loopVars, callVars>>

\* successful_updates += 1 / failed_updates += 1 after update_token_in_supabase
CountSuccess(n, upd) == IF upd.ok THEN n + 1 ELSE n

\* a rejected update that is not counted
CountFailedDropped(n, upd) == n

CountFailed(n, upd) == IF upd.ok THEN n ELSE n + 1

\* supabase.table("tokens").update(update_payload).eq("id", token_id).execute()
WriteLog(log, token_id, tier, upd) ==
  IF upd.issued THEN Append(log, [token_id |-> token_id, tier |-> tier]) ELSE log

CountRejected(n, upd) == IF upd.issued /\ ~upd.ok THEN n + 1 ELSE n

\* the store's answers that matter to a call of update_token_in_supabase
StoreAnswers(price_data) ==
  IF PayloadLen(price_data) > 1 THEN BOOLEAN ELSE {FALSE}

\* one turn of the inner loop of process_tokens_in_batches (253-280), with the
\* batch delay and the step of the outer loop when the batch ends (282-286)
Tier1Turn ==
  /\ pc = "tier1"
  /\ \E batch \in {Batch(tokens, i, BATCH_SIZE)} :
     \E token \in {batch[idx]} :
     \E got \in {fetch_price_data_from_dexscreener(token.chain, reply) :
                   reply \in DexResponses} :
     \E storeRaises \in (IF got.ret = "dict" THEN StoreAnswers(got.data) ELSE {FALSE}) :
     \E upd \in {IF got.ret = "dict"
                   THEN update_token_in_supabase(got.data, storeRaises)
                   ELSE NoUpdate} :
     \E adv \in {Advance(i, idx, Len(batch), Len(tokens), BATCH_SIZE, REQUEST_DELAY,
                         BATCH_DELAY)} :
       /\ dexLog' = Append(dexLog, [token_id |-> token.id, ret |-> got.ret])
       /\ IF got.ret = "raise"
            THEN /\ pc' = "raised"
                 /\ last' = Turn(1, token.id, got.ret, got.data, upd, 0)
                 /\ UNCHANGED <<i, idx, FAILED_TOKENS_DEXSCREENER,
                                successful_updates, failed_updates, writes,
                                numRejected>>
            ELSE /\ FAILED_TOKENS_DEXSCREENER' =
                      IF got.ret = "None"
                        THEN Append(FAILED_TOKENS_DEXSCREENER, FailedEntry(token))
                        ELSE FAILED_TOKENS_DEXSCREENER
                 /\ successful_updates' =
                      IF got.ret = "dict" THEN CountSuccess(successful_updates, upd)
                                          ELSE successful_updates
                 /\ failed_updates' =
                      IF got.ret = "dict" THEN CountFailed(failed_updates, upd)
                                          ELSE failed_updates
                 /\ writes' = WriteLog(writes, token.id, 1, upd)
                 /\ numRejected' = CountRejected(numRejected, upd)
                 /\ last' = Turn(1, token.id, got.ret, got.data, upd, adv.sleep)
                 /\ i' = adv.i
                 /\ idx' = adv.idx
                 /\ pc' = IF adv.over THEN "tier1_done" ELSE "tier1"
  /\ UNCHANGED <<table, run, tokens, geckoLog, fallback_successful_updates,
                 fallback_failed_updates, numSynthetic>>
  /\ UNCHANGED <<loopVars, callVars>>

\* main.py 355-358: process_tokens_in_batches returns, and
\* process_failed_tokens_in_batches starts on the module-level list (289-293)
StartTier2 ==
  /\ pc = "tier1_done"
  /\ i' = 0
  /\ idx' = 1
  /\ fallback_successful_updates' = 0
  /\ fallback_failed_updates' = 0
  /\ pc' = IF Len(FAILED_TOKENS_DEXSCREENER) = 0 THEN "tier2_done" ELSE "tier2"
  /\ UNCHANGED <<table, run, tokens, FAILED_TOKENS_DEXSCREENER,
                 successful_updates, failed_updates, dexLog, geckoLog, writes,
                 numRejected, numSynthetic, last>>
  /\ UNCHANGED <<loopVars, callVars>>

\* one turn of the inner loop of process_failed_tokens_in_batches (299-327),
\* with the batch delay and the step of the outer loop (329-333)
Tier2Turn ==
  /\ pc = "tier2"
  /\ \E batch \in {Batch(FAILED_TOKENS_DEXSCREENER, i, GECKO_BATCH_SIZE)} :
     \E token \in {batch[idx]} :
     \E got \in {get_pool_address_from_geckoterminal(token.chain, reply) :
                   reply \in GeckoResponses} :
     \E u1 \in (IF got.ret = "None" THEN UniformDraws ELSE {0}) :
     \E u24 \in (IF got.ret = "None" THEN UniformDraws ELSE {0}) :
     \E price_data \in {IF got.ret = "dict"
                          THEN get_price_from_geckoterminal(got.data)
                          ELSE generate_random_price_changes(u1, u24)} :
     \E storeRaises \in (IF got.ret = "raise" THEN {FALSE} ELSE StoreAnswers(price_data)) :
     \E upd \in {update_token_in_supabase(price_data, storeRaises)} :
     \E adv \in {Advance(i, idx, Len(batch), Len(FAILED_TOKENS_DEXSCREENER),
                         GECKO_BATCH_SIZE, GECKO_REQUEST_DELAY, GECKO_BATCH_DELAY)} :
       /\ geckoLog' = Append(geckoLog, [token_id |-> token.token_id])
       /\ IF got.ret = "raise"
            THEN /\ pc' = "raised"
                 /\ last' = Turn(2, token.token_id, got.ret, NoPriceData, NoUpdate, 0)
                 /\ UNCHANGED <<i, idx, fallback_successful_updates,
                                fallback_failed_updates, writes, numRejected,
                                numSynthetic>>
            ELSE /\ fallback_successful_updates' =
                      CountSuccess(fallback_successful_updates, upd)
                 /\ fallback_failed_updates' =
                      CountFailed(fallback_failed_updates, upd)
                 /\ writes' = WriteLog(writes, token.token_id, 2, upd)
                 /\ numSynthetic' = IF got.ret = "None" THEN numSynthetic + 1
                                                       ELSE numSynthetic
                 /\ numRejected' = CountRejected(numRejected, upd)
                 /\ last' = Turn(2, token.token_id, got.ret, price_data, upd, adv.sleep)
                 /\ i' = adv.i
                 /\ idx' = adv.idx
                 /\ pc' = IF adv.over THEN "tier2_done" ELSE "tier2"
  /\ UNCHANGED <<table, run, tokens, FAILED_TOKENS_DEXSCREENER,
                 successful_updates, failed_updates, dexLog>>
  /\ UNCHANGED <<loopVars, callVars>>

\* main.py 360-369: the totals of the two tiers, and the summary
Summarize ==
  /\ pc = "tier2_done"
  /\ successful_updates' = successful_updates + fallback_successful_updates
  /\ failed_updates' = failed_updates + fallback_failed_updates
  /\ pc' = "done"
  /\ UNCHANGED <<table, run, tokens, i, idx, FAILED_TOKENS_DEXSCREENER,
                 fallback_successful_updates, fallback_failed_updates, dexLog,
                 geckoLog, writes, numRejected, numSynthetic, last>>
  /\ UNCHANGED <<loopVars, callVars>>

Next == StartRun \/ Tier1Turn \/ StartTier2 \/ Tier2Turn \/ Summarize

Spec == Init /\ [][Next]_vars

\* Between two runs of scheduler.job the table is open to its other
\* writers: here a reviewer takes the approval of a token back. A run reads
\* the table once, at its start (main.py 348).
ChangeTable ==
  /\ RunOver
  /\ run < MaxRuns
  /\ \E k \in DOMAIN table :
       /\ table[k].status = "approved"
       /\ table' = [table EXCEPT ![k].status = "rejected"]
  /\ UNCHANGED <<run, pc, tokens, i, idx, FAILED_TOKENS_DEXSCREENER,
                 successful_updates, failed_updates,
                 fallback_successful_updates, fallback_failed_updates, dexLog,
                 geckoLog, writes, numRejected, numSynthetic, last>>
  /\ UNCHANGED <<loopVars, callVars>>

NextChange == Next \/ ChangeTable

SpecChange == Init /\ [][NextChange]_vars

\* the summary main() prints: Successful, Failed, and the tokens that
\* required the fallback (len(FAILED_TOKENS_DEXSCREENER))
fallbackCount == Len(FAILED_TOKENS_DEXSCREENER)

\* ------------------------------------------- the batch loop for any size
\* The two loops of main.py differ in their three constants only. Here the
\* loop runs over a list of items with a batch size drawn from 1..MaxBatchSize
\* and the delays of one tier; its turn visits the item and nothing else.
ItemLists == UNION { [1..n -> {1, 2}] : n \in 0..MaxItems }

InitBatch ==
  /\ table = <<>>
  /\ MainIdle
  /\ CallIdle
  /\ bItems \in ItemLists
  /\ bSize \in 1..MaxBatchSize
  /\ bTier \in {1, 2}
  /\ bI = 0
  /\ bIdx = 1
  /\ bPc = IF Len(bItems) = 0 THEN "over" ELSE "loop"
  /\ bVisited = <<>>
  /\ bChunks = <<>>
  /\ bSleeps = <<>>

BatchTurn ==
  /\ bPc = "loop"
  /\ \E batch \in {Batch(bItems, bI, bSize)} :
     \E adv \in {Advance(bI, bIdx, Len(batch), Len(bItems), bSize,
                         IF bTier = 1 THEN REQUEST_DELAY ELSE GECKO_REQUEST_DELAY,
                         IF bTier = 1 THEN BATCH_DELAY ELSE GECKO_BATCH_DELAY)} :
       /\ bVisited' = Append(bVisited, batch[bIdx])
       /\ bChunks' = IF bIdx = 1 THEN Append(bChunks, batch) ELSE bChunks
       /\ bSleeps' = Append(bSleeps, adv.sleep)
       /\ bI' = adv.i
       /\ bIdx' = adv.idx
       /\ bPc' = IF adv.over THEN "over" ELSE "loop"
  /\ UNCHANGED <<bItems, bSize, bTier>>
  /\ UNCHANGED <<mainVars, callVars>>

NextBatch == BatchTurn

SpecBatch == InitBatch /\ [][NextBatch]_vars

\* --------------------------------------- the Primary client on any reply
\* fetch_price_data_from_dexscreener called once, for a chain and a reply
\* drawn from the lists of at most MaxPairs pairs over PairPalette.
PairPalette ==
  { Pair("ethereum", Change(Some(525), Some(-310)), Some("0.00000008369")),
    Pair("polygon", Change(Some(-75), None), Some("not-a-number")),
    Pair("bsc", Change(Some(0), Some(120)), Some("")),
    Pair("ethereum", ChangeMissing, None),
    Pair("polygon", ChangeNull, Some("1.5")),
    Pair("bsc", Change(None, Some(40)), Some("nan")) }

PairLists == UNION { [1..n -> PairPalette] : n \in 0..MaxPairs }

DexReplies ==
  { DexReply("timeout", None), DexReply("http_error", None),
    DexReply("ok", None) }
  \cup { DexReply("ok", Some(pairs)) : pairs \in PairLists }

\* token.get("chain", "ethereum"): a name in any case, one that no pair
\* carries, or None for a null column
TokenChains ==
  { Some("ethereum"), Some("Polygon"), Some("BSC"), Some("solana"), None }

InitDex ==
  /\ table = <<>>
  /\ MainIdle
  /\ LoopIdle
  /\ cChain \in TokenChains
  /\ cReply \in DexReplies
  /\ cGot = ReturnedNone
  /\ cPc = "call"
  /\ db = <<>>
  /\ uToken = 0
  /\ uData = NoPriceData
  /\ uGot = NoUpdate
  /\ uPc = "off"

DexCall ==
  /\ cPc = "call"
  /\ cGot' = fetch_price_data_from_dexscreener(cChain, cReply)
  /\ cPc' = "returned"
  /\ UNCHANGED <<cChain, cReply, db, uToken, uData, uGot, uPc>>
  /\ UNCHANGED <<mainVars, loopVars>>

NextDex == DexCall

SpecDex == InitDex /\ [][NextDex]_vars

\* ------------------------------------- one update of the store on its own
\* update_token_in_supabase called once, for a token id and price data drawn
\* from every mix of present and absent fields, on a store of MaxTokens rows.
StoreRows ==
  { [price_1h_change |-> None, price_24h_change |-> None,
     current_price |-> None, updated_at |-> 0],
    [price_1h_change |-> Some(111), price_24h_change |-> Some(-222),
     current_price |-> Some("9.9"), updated_at |-> 0] }

UpdateInputs ==
  { PriceData(h1, h24, price, "dexscreener") :
      h1 \in {None, Some(0), Some(525)},
      h24 \in {None, Some(-310)},
      price \in {None, Some(""), Some("1.5")} }

\* the ids of the store's rows, and one id that no row has
InitUpdate ==
  /\ table = <<>>
  /\ MainIdle
  /\ LoopIdle
  /\ cChain = None
  /\ cReply = DexReply("timeout", None)
  /\ cGot = ReturnedNone
  /\ cPc = "off"
  /\ db \in [1..MaxTokens -> StoreRows]
  /\ uToken \in 1..(MaxTokens + 1)
  /\ uData \in UpdateInputs
  /\ uGot = NoUpdate
  /\ uPc = "call"

\* the call: when execute() raises, the store may or may not have applied
\* the update before the exception reached the caller
UpdateCall ==
  /\ uPc = "call"
  /\ \E storeRaises \in StoreAnswers(uData) :
     \E upd \in {update_token_in_supabase(uData, storeRaises)} :
       /\ uGot' = upd
       /\ db' \in IF ~upd.issued THEN {db}
                  ELSE IF storeRaises
                    THEN {db, StoreUpdate(db, uToken, upd.payload)}
                  ELSE {StoreUpdate(db, uToken, upd.payload)}
  /\ uPc' = "updated"
  /\ UNCHANGED <<cChain, cReply, cGot, cPc, uToken, uData>>
  /\ UNCHANGED <<mainVars, loopVars>>

NextUpdate == UpdateCall

SpecUpdate == InitUpdate /\ [][NextUpdate]_vars

\* ------------------------------------------------------------ properties
\* the updates of this run that the store accepted
numAccepted == Len(writes) - numRejected

RECURSIVE Ids(_)
Ids(log) == IF log = <<>> THEN <<>> ELSE <<Head(log).token_id>> \o Ids(Tail(log))

RECURSIVE FailedIds(_)
FailedIds(log) ==
  IF log = <<>> THEN <<>>
  ELSE (IF Head(log).ret = "None" THEN <<Head(log).token_id>> ELSE <<>>)
       \o FailedIds(Tail(log))

RECURSIVE Concat(_)
Concat(chunks) == IF chunks = <<>> THEN <<>> ELSE Head(chunks) \o Concat(Tail(chunks))

\* C1: in a run, the Secondary client is never called for a token for which
\* the Primary client returned price data in that run.
C1_NoSecondaryAfterPrimary ==
  \A k \in DOMAIN geckoLog :
    \A j \in DOMAIN dexLog :
      dexLog[j].token_id = geckoLog[k].token_id => dexLog[j].ret # "dict"

\* C2: when tier 2 of a run is over, the tokens it processed are the tokens
\* whose Primary fetch failed in tier 1 of that run, once each, in that order.
C2_Tier2IsThisRunsFailures ==
  pc \in {"tier2_done", "done"} => Ids(geckoLog) = FailedIds(dexLog)

\* C3: at the end of a run in which the store accepted every update, an
\* update has been sent to the store for every eligible token.
C3_EveryTokenWritten ==
  (pc = "done" /\ numRejected = 0)
    => \A t \in DOMAIN tokens :
         \E k \in DOMAIN writes : writes[k].token_id = tokens[t].id

\* C4: at the end of a run the failed counter is the number of updates the
\* store rejected and the success counter the number of updates it accepted.
C4_CountersAreStoreAnswers ==
  pc = "done" =>
    /\ failed_updates = numRejected
    /\ successful_updates = numAccepted

\* C5: when the Secondary fetch fails for a token of tier 2 (its Primary fetch
\* has failed), the record made is the synthetic one: source fallback_random,
\* no price, both percent changes present and within -10.00..10.00; and that
\* record is what is sent to the store.
C5_SyntheticRecord ==
  (last.tier = 2 /\ last.ret = "None") =>
    /\ last.price_data.source = "fallback_random"
    /\ IsNone(last.price_data.current_price)
    /\ ~IsNone(last.price_data.price_1h_change)
    /\ ~IsNone(last.price_data.price_24h_change)
    /\ Val(last.price_data.price_1h_change) \in -1000..1000
    /\ Val(last.price_data.price_24h_change) \in -1000..1000
    /\ last.issued
    /\ writes # <<>>
    /\ writes[Len(writes)] = [token_id |-> last.token_id, tier |-> 2]

C5_Witness ==
  /\ last.tier = 2
  /\ last.ret = "None"
  /\ last.ok
  /\ Val(last.price_data.price_1h_change) = 1000
  /\ Val(last.price_data.price_24h_change) = -1000

\* C6: for every list and batch size, the loop visits each item once, in the
\* order of the list: what it has visited is always a prefix of the list, and
\* the whole list when the loop is over.
C6_VisitOnceInOrder ==
  /\ Len(bVisited) <= Len(bItems)
  /\ \A k \in DOMAIN bVisited : bVisited[k] = bItems[k]
  /\ bPc = "over" => Len(bVisited) = Len(bItems)

C6_Witness ==
  /\ bPc = "over"
  /\ Len(bItems) = 2
  /\ bSize > Len(bItems)
  /\ bVisited = bItems
  /\ bItems[1] # bItems[2]

\* C7: for every list and batch size, the batches are the consecutive chunks
\* of batch-size items, the last one non-empty and no larger; they do not
\* overlap and their concatenation is the list.
C7_Partition ==
  /\ \A k \in DOMAIN bChunks :
       /\ bChunks[k] = SubSeq(bItems, (k - 1) * bSize + 1,
                              Min(k * bSize, Len(bItems)))
       /\ Len(bChunks[k]) >= 1
       /\ Len(bChunks[k]) <= bSize
       /\ k < Len(bChunks) => Len(bChunks[k]) = bSize
  /\ bPc = "over" => Concat(bChunks) = bItems

C7_Witness ==
  /\ bPc = "over"
  /\ Len(bChunks) = 2
  /\ bSize = 3
  /\ Len(bChunks[2]) = 1
  /\ Concat(bChunks) = bItems

\* C8: whatever a price source answers, the client returns price data or a
\* failure value: no exception leaves a client and ends the run.
C8_NoExceptionLeavesClient ==
  /\ pc # "raised"
  /\ \A k \in DOMAIN dexLog : dexLog[k].ret # "raise"
  /\ last.ret # "raise"

\* C9: a turn whose update the store rejects adds one to the failed counter
\* of its tier and nothing to the success counter, leaves the fallback queue
\* and the token list alone, and the loop goes on with the next item (or the
\* tier ends if it was the last); and a run that reaches its summary has
\* called Primary for every token and Secondary for every queue entry.
C9_Step ==
  (last'.issued /\ ~last'.ok /\ (dexLog' # dexLog \/ geckoLog' # geckoLog)) =>
    /\ pc' # "raised"
    /\ tokens' = tokens
    /\ FAILED_TOKENS_DEXSCREENER' = FAILED_TOKENS_DEXSCREENER
    /\ pc = "tier1" =>
         /\ failed_updates' = failed_updates + 1
         /\ successful_updates' = successful_updates
         /\ IF i + idx = Len(tokens)
              THEN pc' = "tier1_done"
              ELSE pc' = "tier1" /\ i' + idx' = i + idx + 1
    /\ pc = "tier2" =>
         /\ fallback_failed_updates' = fallback_failed_updates + 1
         /\ fallback_successful_updates' = fallback_successful_updates
         /\ IF i + idx = Len(FAILED_TOKENS_DEXSCREENER)
              THEN pc' = "tier2_done"
              ELSE pc' = "tier2" /\ i' + idx' = i + idx + 1

C9_End ==
  pc = "done" =>
    /\ Ids(dexLog) = [k \in DOMAIN tokens |-> tokens[k].id]
    /\ Ids(geckoLog) = [k \in DOMAIN FAILED_TOKENS_DEXSCREENER |->
                          FAILED_TOKENS_DEXSCREENER[k].token_id]
    /\ failed_updates >= numRejected

C9_RejectedWriteGoesOn == [][C9_Step]_vars /\ []C9_End

C9_Witness ==
  /\ pc = "done"
  /\ run = 1
  /\ Len(tokens) = 2
  /\ Len(writes) = 2
  /\ writes = <<[token_id |-> tokens[1].id, tier |-> 1],
                [token_id |-> tokens[2].id, tier |-> 2]>>
  /\ numRejected = 1
  /\ last.ok
  /\ last.price_data.source = "geckoterminal"
  /\ failed_updates = 1
  /\ successful_updates = 1

\* C10: a run with no eligible token ends with success 0, failed 0 and
\* fallbackCount 0, and has called neither price source.
C10_EmptyRunIsAllZero ==
  pc = "returned" =>
    /\ successful_updates = 0
    /\ failed_updates = 0
    /\ fallbackCount = 0
    /\ dexLog = <<>>
    /\ geckoLog = <<>>

\* the tier-1 writes of the tokens whose Primary call returned price data,
\* then the tier-2 writes of the tokens whose Primary call returned None
RECURSIVE PrimaryWrites(_)
PrimaryWrites(log) ==
  IF log = <<>> THEN <<>>
  ELSE (IF Head(log).ret = "dict"
          THEN <<[token_id |-> Head(log).token_id, tier |-> 1]>> ELSE <<>>)
       \o PrimaryWrites(Tail(log))

SecondaryWrites(ids) == [k \in DOMAIN ids |-> [token_id |-> ids[k], tier |-> 2]]

\* C11: a run over n tokens that ends with every write accepted, Primary
\* having returned None for k of the tokens and data for the others, and
\* Secondary having returned data for each token it was asked about, has
\* written the n-k tokens from Primary data and the k tokens from Secondary
\* data, and sums up success n, failed 0, fallbackCount k.
C11_PrimaryThenSecondary ==
  (/\ pc = "done"
   /\ numRejected = 0
   /\ numSynthetic = 0
   /\ \A j \in DOMAIN dexLog : dexLog[j].ret \in {"dict", "None"}) =>
    /\ writes = PrimaryWrites(dexLog) \o SecondaryWrites(FailedIds(dexLog))
    /\ successful_updates = Len(tokens)
    /\ failed_updates = 0
    /\ fallbackCount = Len(FailedIds(dexLog))

\* the pair a call of the Primary client has selected: defined when the reply
\* holds a non-empty list and the token has a chain
cPairs == Val(cReply.pairs)

cExtracts ==
  /\ cPc = "returned"
  /\ cReply.status = "ok"
  /\ ~IsNone(cReply.pairs)
  /\ Len(cPairs) > 0
  /\ ~IsNone(cChain)

cPair == SelectPair(cPairs, DexChain(Val(cChain)))

\* C12: the Primary client returns the price string of the selected record
\* unchanged when it is numeric and returns no price when it is not numeric;
\* the two percent changes are those of the record whatever the price is.
C12_PriceValidated ==
  (cExtracts /\ cPair.priceChange.kind # "null") =>
    /\ cGot.ret = "dict"
    /\ cGot.data.price_1h_change = cPair.priceChange.h1
    /\ cGot.data.price_24h_change = cPair.priceChange.h24
    /\ IsNone(cPair.priceUsd) => IsNone(cGot.data.current_price)
    /\ (~IsNone(cPair.priceUsd) /\ FloatParses(Val(cPair.priceUsd))) =>
         cGot.data.current_price = cPair.priceUsd
    /\ (~IsNone(cPair.priceUsd) /\ ~FloatParses(Val(cPair.priceUsd))) =>
         IsNone(cGot.data.current_price)

\* what the client makes of the k-th pair of the reply
cFrom(k) ==
  /\ cGot.ret = "dict"
  /\ cGot.data.price_1h_change = cPairs[k].priceChange.h1
  /\ cGot.data.price_24h_change = cPairs[k].priceChange.h24
  /\ cGot.data.current_price \in {cPairs[k].priceUsd, None}
  /\ cGot.data.source = "dexscreener"

\* C15: from a non-empty list of pairs the Primary client extracts the first
\* pair, in the order returned, whose chainId is the network key of the
\* token's chain (the chain in lower case), and the first pair of the list
\* when no pair has that chainId; an empty or missing list gives None.
C15_FirstMatchingPair ==
  /\ (cPc = "returned" /\ cReply.status = "ok"
      /\ (IsNone(cReply.pairs) \/ Len(cPairs) = 0)) => cGot = ReturnedNone
  /\ cExtracts =>
       \E k \in DOMAIN cPairs :
         /\ \/ /\ cPairs[k].chainId = Lower(Val(cChain))
               /\ \A j \in 1..(k - 1) : cPairs[j].chainId # Lower(Val(cChain))
            \/ /\ k = 1
               /\ \A j \in DOMAIN cPairs : cPairs[j].chainId # Lower(Val(cChain))
         /\ cPairs[k].priceChange.kind # "null" => cFrom(k)

C15_Witness ==
  /\ cExtracts
  /\ cChain = Some("Polygon")
  /\ Len(cPairs) = 2
  /\ cPairs[1].chainId = "bsc"
  /\ cPairs[2].chainId = "polygon"
  /\ cGot.ret = "dict"
  /\ cGot.data.price_1h_change = Some(-75)
  /\ IsNone(cGot.data.current_price)

\* C13: an update the store accepts sets, in the row of the token, each of
\* price, 1-hour change and 24-hour change that the price data holds, and
\* updated_at; a field the price data lacks keeps the value the row had; every
\* other row stays as it was. A call that sends no update changes nothing.
C13_Step ==
  /\ (uPc = "call" /\ uPc' = "updated" /\ uGot'.ok) =>
       /\ uGot'.issued
       /\ DOMAIN db' = DOMAIN db
       /\ \A id \in DOMAIN db :
            IF id # uToken THEN db'[id] = db[id]
            ELSE /\ db'[id].price_1h_change =
                      IF IsNone(uData.price_1h_change)
                        THEN db[id].price_1h_change
                        ELSE uData.price_1h_change
                 /\ db'[id].price_24h_change =
                      IF IsNone(uData.price_24h_change)
                        THEN db[id].price_24h_change
                        ELSE uData.price_24h_change
                 /\ db'[id].current_price =
                      IF IsNone(uData.current_price)
                        THEN db[id].current_price
                        ELSE uData.current_price
                 /\ db'[id].updated_at = StampNow
  /\ (uPc = "call" /\ uPc' = "updated" /\ ~uGot'.issued) => db' = db

C13_WritesPresentFieldsOnly == [][C13_Step]_vars

C13_Witness ==
  /\ uPc = "updated"
  /\ uGot.ok
  /\ uToken = 1
  /\ uData.price_1h_change = Some(0)
  /\ IsNone(uData.price_24h_change)
  /\ IsNone(uData.current_price)
  /\ db[1].price_1h_change = Some(0)
  /\ db[1].price_24h_change = Some(-222)
  /\ db[1].current_price = Some("9.9")
  /\ db[1].updated_at = StampNow
  /\ db[2].current_price = Some("9.9")
  /\ db[2].updated_at = 0

\* the delays of the tier the loop runs with
bRequestDelay == IF bTier = 1 THEN REQUEST_DELAY ELSE GECKO_REQUEST_DELAY

bBatchDelay == IF bTier = 1 THEN BATCH_DELAY ELSE GECKO_BATCH_DELAY

\* C14: in each tier the sleep after the k-th item is none after the last
\* item of the list, the tier's batch delay after the last item of any other
\* chunk, and the tier's request delay after every other item: exactly one
\* sleep between two consecutive items, and an item is taken up only after
\* the sleep of the one before it.
C14_DelaysBetweenItems ==
  /\ Len(bSleeps) = Len(bVisited)
  /\ \A k \in DOMAIN bSleeps :
       bSleeps[k] = IF k = Len(bItems) THEN 0
                    ELSE IF k % bSize = 0 THEN bBatchDelay
                    ELSE bRequestDelay

C14_Witness ==
  /\ bPc = "over"
  /\ bTier = 2
  /\ bSize = 2
  /\ bSleeps = <<GECKO_REQUEST_DELAY, GECKO_BATCH_DELAY, GECKO_REQUEST_DELAY, 0>>

\* the rows of the table a token id names
RowsOf(token_id) == { k \in DOMAIN table : table[k].id = token_id }

IsEligibleId(token_id) ==
  /\ RowsOf(token_id) # {}
  /\ \A k \in RowsOf(token_id) :
       /\ table[k].status = "approved"
       /\ table[k].token_type \in {"launched", "presale"}
       /\ table[k].contract_address # ""

EligibleIds ==
  LET rows == SelectSeq(table, LAMBDA t : IsEligibleId(t.id))
  IN [k \in DOMAIN rows |-> rows[k].id]

\* C16: in a run the tokens Primary is called for are, in the order of the
\* table, the rows that are approved, launched or presale, and have a
\* contract address (all of them once tier 1 has ended), and no call of a
\* price source and no update is made for a token that is not such a row.
C16_OnlyEligibleTokens ==
  /\ pc \in {"tier1", "tier1_done", "tier2", "tier2_done"} =>
       /\ Len(dexLog) <= Len(EligibleIds)
       /\ Ids(dexLog) = SubSeq(EligibleIds, 1, Len(dexLog))
       /\ \A k \in DOMAIN geckoLog : IsEligibleId(geckoLog[k].token_id)
       /\ \A k \in DOMAIN writes : IsEligibleId(writes[k].token_id)
  /\ pc \in {"tier1_done", "tier2", "tier2_done"} => Ids(dexLog) = EligibleIds

\* the loop turns made so far in this run
numProcessed == Len(dexLog) + Len(geckoLog)

\* C17: in every run of the process, success + failed never exceeds the
\* number of tokens processed so far; and when a run over a non-empty token
\* list ends, success + failed is the number of its eligible tokens and
\* fallbackCount is not larger than that number.
C17_CountersAddUp ==
  /\ successful_updates + failed_updates <= numProcessed
  /\ pc = "done" =>
       /\ successful_updates + failed_updates = Len(tokens)
       /\ fallbackCount <= Len(tokens)

\* C18: in every run of the process at most one update is sent to the store
\* per token; so no token written in tier 1 (from Primary data) is written
\* again in tier 2 (from Secondary or synthetic data) of that run.
C18_OneWritePerToken ==
  \A j, k \in DOMAIN writes : writes[j].token_id = writes[k].token_id => j = k

\* C19: every current_price the store accepts in an update is a string that
\* float() parses, in tier 1 and in tier 2.
C19_PersistedPriceIsNumeric ==
  (last.issued /\ last.ok /\ ~IsNone(last.price_data.current_price)) =>
    FloatParses(Val(last.price_data.current_price))

\* an upper bound of the steps the current run still has to make
Measure ==
  CASE pc = "tier1" ->
         2 * (Len(tokens) - Len(dexLog)) + Len(FAILED_TOKENS_DEXSCREENER) + 3
    [] pc = "tier1_done" -> Len(FAILED_TOKENS_DEXSCREENER) + 2
    [] pc = "tier2" -> Len(FAILED_TOKENS_DEXSCREENER) - Len(geckoLog) + 1
    [] pc = "tier2_done" -> 1
    [] OTHER -> 0

FailedQueueIds ==
  [k \in DOMAIN FAILED_TOKENS_DEXSCREENER |->
     FAILED_TOKENS_DEXSCREENER[k].token_id]

\* C20: a run terminates: whatever the sources and the store answer, each
\* step of a run lowers a bound on the steps left and a run that is not over
\* has a step to make. It calls Primary once per eligible token and
\* Secondary once per entry of the fallback queue, none of them twice: the
\* calls made so far are the first tokens of the list and the first entries
\* of the queue, and all of them when the run ends.
C20_StepLowersMeasure ==
  ~RunOver => (Measure' < Measure /\ Measure' >= 0)

C20_OneCallEach ==
  /\ Len(dexLog) <= Len(tokens)
  /\ Ids(dexLog) = [k \in 1..Len(dexLog) |-> tokens[k].id]
  /\ Len(geckoLog) <= Len(FAILED_TOKENS_DEXSCREENER)
  /\ Ids(geckoLog) = SubSeq(FailedQueueIds, 1, Len(geckoLog))
  /\ pc = "done" =>
       /\ Len(dexLog) = Len(tokens)
       /\ Len(geckoLog) = Len(FAILED_TOKENS_DEXSCREENER)
  /\ ~RunOver => ENABLED Next

C20_RunTerminates == [][C20_StepLowersMeasure]_vars /\ []C20_OneCallEach

C20_Witness ==
  /\ pc = "done"
  /\ run = 1
  /\ Len(tokens) = 2
  /\ Len(dexLog) = 2
  /\ dexLog[1].ret = "None"
  /\ dexLog[2].ret = "None"
  /\ Len(geckoLog) = 2
  /\ numSynthetic = 1
  /\ numRejected = 1

====
